---- MODULE Spec2Model ----
(***************************************************************************)
(* Health-check manager of txova-go-observability (package health):        *)
(* the aggregator NewReport, the Manager (Register, Check, runChecks,      *)
(* GetFailureCount, IsReady, IsLive, IsStarted) and the HTTP Handler.      *)
(***************************************************************************)
EXTENDS Integers, Sequences, FiniteSets, TLC

\* ------------------------------------------------------------------ bounds
MaxCheckers == 1        \* at most this many Register calls
MaxTime == 1            \* the clock runs over 0..MaxTime
MaxCalls == 2           \* at most this many Manager.Check / runChecks entries
TimeoutTicks == 1       \* config.Timeout, in clock ticks
TTLTicks == 1           \* the non-zero config.CacheTTL, in clock ticks
MaxTicks == 2           \* at most this many ticks of the background ticker
MaxStops == 2           \* at most this many StopBackground calls
MaxConcCheckers == 2    \* at most this many Register calls next to running cycles
MaxOverlapCalls == 3    \* at most this many entries of cycles that may overlap

Names == {"db", "kafka"}
AggNames == Names \cup {"redis"}   \* the keys of the maps handed to NewReport alone
FirstName == "db"       \* the first checker registered has this name (the names
                        \* are interchangeable)
\* The callers: one goroutine serving requests, and the background goroutine.
Caller == "caller"
Scheduler == "scheduler"
Procs == {Caller, Scheduler}
\* The goroutines StartBackground launches: the first call's and a later call's.
Scheduler2 == "scheduler2"
Loops == {Scheduler, Scheduler2}
Goroutines == Procs \cup Loops

\* ------------------------------------------------------------ status.go
StatusHealthy == "healthy"
StatusUnhealthy == "unhealthy"
StatusDegraded == "degraded"
Statuses == {StatusHealthy, StatusUnhealthy, StatusDegraded}

StatusOK == 200
StatusServiceUnavailable == 503

\* DefaultManagerConfig().FailureThreshold
DefaultFailureThreshold == 3
\* WithFailureThreshold(1), as the package's tests configure it
TestFailureThreshold == 1

\* ------------------------------------------------------------ checker.go
\* Result, reduced to the fields the manager and the aggregator read.
NewHealthyResult == [status |-> StatusHealthy, error |-> ""]
NewUnhealthyResult(err) == [status |-> StatusUnhealthy, error |-> err]
NewDegradedResult(msg) == [status |-> StatusDegraded, error |-> msg]

DeadlineExceeded == "context deadline exceeded"
Canceled == "context canceled"

\* FuncChecker.Check: unhealthy with the error checkFn returned, healthy when
\* it returned nil ("").
FuncChecker_Check(err) ==
  IF err # "" THEN NewUnhealthyResult(err) ELSE NewHealthyResult

\* What the checkFn of a checker that respects its context returns: ctx.Err()
\* when the context is cancelled, else nil or an error of its own.
CheckFnErrors(cancelled) ==
  IF cancelled THEN {Canceled} ELSE {"", "check failed"}

\* What a checker's Check can hand back.
CheckerResults ==
  { NewHealthyResult, NewUnhealthyResult("check failed"),
    NewDegradedResult("high latency"), NewUnhealthyResult(DeadlineExceeded) }

EmptyMap == [n \in {} |-> TRUE]

\* m[k] of a Go map[string]bool: the zero value for a missing key.
Lookup(m, k) == IF k \in DOMAIN m THEN m[k] ELSE FALSE

\* m[k] = v of a Go map.
MapSet(m, k, v) == [n \in (DOMAIN m) \cup {k} |-> IF n = k THEN v ELSE m[n]]

\* The orders in which `range` may visit the keys S of a map.
Orders(S) ==
  { o \in [1..Cardinality(S) -> S] : \A i, j \in DOMAIN o : o[i] = o[j] => i = j }

\* LoopBody without the test of requiredChecks[name]: an unhealthy entry only
\* ever degrades.
LoopBody_IgnoreRequired(status, name, checks, requiredChecks) ==
  IF checks[name].status = StatusUnhealthy
  THEN [status |-> IF status = StatusHealthy THEN StatusDegraded ELSE status,
        brk |-> FALSE]
  ELSE IF checks[name].status = StatusDegraded /\ status = StatusHealthy
       THEN [status |-> StatusDegraded, brk |-> FALSE]
       ELSE [status |-> status, brk |-> FALSE]

\* LoopBody taking every checker for required.
LoopBody_AllRequired(status, name, checks, requiredChecks) ==
  IF checks[name].status = StatusUnhealthy
  THEN [status |-> StatusUnhealthy, brk |-> TRUE]
  ELSE IF checks[name].status = StatusDegraded /\ status = StatusHealthy
       THEN [status |-> StatusDegraded, brk |-> FALSE]
       ELSE [status |-> status, brk |-> FALSE]

\* LoopBody without the `else if` branch for degraded entries.
LoopBody_NoDegraded(status, name, checks, requiredChecks) ==
  IF checks[name].status = StatusUnhealthy
  THEN IF Lookup(requiredChecks, name)
       THEN [status |-> StatusUnhealthy, brk |-> TRUE]
       ELSE [status |-> IF status = StatusHealthy THEN StatusDegraded ELSE status,
             brk |-> FALSE]
  ELSE [status |-> status, brk |-> FALSE]

\* One iteration of the loop of NewReport on entry `name`; brk is the `break`.
LoopBody(status, name, checks, requiredChecks) ==
  IF checks[name].status = StatusUnhealthy
  THEN IF Lookup(requiredChecks, name)
       THEN [status |-> StatusUnhealthy, brk |-> TRUE]
       ELSE [status |-> IF status = StatusHealthy THEN StatusDegraded ELSE status,
             brk |-> FALSE]
  ELSE IF checks[name].status = StatusDegraded /\ status = StatusHealthy
       THEN [status |-> StatusDegraded, brk |-> FALSE]
       ELSE [status |-> status, brk |-> FALSE]

RECURSIVE RangeLoop(_, _, _, _, _)
RangeLoop(order, i, status, checks, requiredChecks) ==
  IF i > Len(order) THEN status
  ELSE LET s == LoopBody(status, order[i], checks, requiredChecks)
       IN  IF s.brk THEN s.status
           ELSE RangeLoop(order, i + 1, s.status, checks, requiredChecks)

\* The status NewReport computes when `range checks` visits the keys in `order`.
AggregateStatus(order, checks, requiredChecks) ==
  RangeLoop(order, 1, StatusHealthy, checks, requiredChecks)

NewReport(order, checks, requiredChecks, t) ==
  [status |-> AggregateStatus(order, checks, requiredChecks),
   checks |-> checks, timestamp |-> t]

\* A nil *Report.
NilReport == [status |-> "nil", checks |-> EmptyMap, timestamp |-> 0]


\* ------------------------------------------------------------ manager.go
VARIABLES
  now,            \* the clock read by time.Now / time.Since
  config,         \* Manager.config (CacheTTL, Timeout)
  checkers,       \* Manager.checkers: sequence of [name, required]
  requiredChecks, \* Manager.requiredChecks
  cachedReport,   \* Manager.cachedReport (NilReport for nil)
  cacheTime,      \* Manager.cacheTime
  failureCounts,  \* Manager.failureCounts
  mu,             \* Manager.mu between two steps: "free", or who still holds it
  op,             \* per caller: the exported operation it is executing
  pc,             \* per caller: its position inside Check / runChecks
  phase,          \* per caller: which of a handler's Check calls is running
  snap,           \* per caller: runChecks' local copies (checkers, requiredChecks)
  gor,            \* per caller: state of each checker goroutine of the cycle
  deadline,       \* per caller: deadline of the cycle's checkCtx
  callerCtx,      \* per caller: the ctx handed to Check is already cancelled
  results,        \* per caller: runChecks' local map results
  report,         \* per caller: runChecks' local report
  ret,            \* per caller: what the operation that returned in the last step
                  \* returned or answered (NoRet when none did)
  calls,          \* per registered checker: number of times Check was invoked
  ncalls,         \* number of Manager.Check / runChecks entries so far
  everStarted,    \* IsStarted has returned true at least once
  doubleStart,    \* StartBackground was called while a goroutine it had
                  \* launched before was still running
  stopCh,         \* Manager.stopCh: "open" or "closed"
  doneCh,         \* Manager.doneCh: "open" or "closed"
  ctxDone,        \* the context handed to StartBackground is cancelled
  bgpc,           \* per background goroutine: its position in the loop
  tickerC,        \* per background goroutine: ticker.C holds a tick
  fired,          \* number of times a ticker has fired
  stoppc,         \* position of the caller of StopBackground
  stops,          \* number of StopBackground calls made
  stopsReturned,  \* number of StopBackground calls that have returned
  panicked,       \* the process has panicked (close of a closed channel)
  evals,          \* per background goroutine: runChecks calls it has made
  ticksTaken,     \* per background goroutine: ticks it has received
  HealthEnabled,  \* Observability.HealthManager is not nil
  aggIn,          \* aggregator harness: the arguments of NewReport
  aggOut          \* aggregator harness: the Report returned

mgrVars == <<config, checkers, requiredChecks, cachedReport, cacheTime, failureCounts,
            mu>>
procVars == <<op, pc, phase, snap, gor, deadline, callerCtx, results, report>>
ghostVars == <<calls, ncalls, everStarted, doubleStart>>
bgVars == <<stopCh, doneCh, ctxDone, bgpc, tickerC, fired, stoppc, stops,
            stopsReturned, panicked, evals, ticksTaken>>
obsVars == <<HealthEnabled>>
aggVars == <<aggIn, aggOut>>
vars == <<now, mgrVars, procVars, ret, ghostVars, aggVars, bgVars, obsVars>>

\* The ways into Manager.Check / runChecks.
CheckOps == {"Check", "StartupHandler", "Background"}

NoSnap == [checkers |-> <<>>, requiredChecks |-> EmptyMap]
\* What an operation hands back: the HTTP status code and the "status" of the
\* body (handlers), the boolean (IsReady, IsStarted, IsLive), the count and the
\* name asked for (GetFailureCount), the Report the operation got from
\* Manager.Check, whether that Report is what is returned or written as the
\* body, whether Check took it from the cache, and the error returned
\* (HealthCheck; "" for nil).
NoRet == [op |-> "none", code |-> 0, status |-> "", ok |-> FALSE, count |-> 0,
          name |-> "", report |-> NilReport, full |-> FALSE, cached |-> FALSE,
          err |-> ""]
NoRets == [q \in Goroutines |-> NoRet]

\* NewManager: the channels are made, nothing runs in the background.
BgInit ==
  /\ stopCh = "open"
  /\ doneCh = "open"
  /\ ctxDone = FALSE
  /\ bgpc = [l \in Loops |-> "none"]
  /\ tickerC = [l \in Loops |-> FALSE]
  /\ fired = 0
  /\ stoppc = "idle"
  /\ stops = 0
  /\ stopsReturned = 0
  /\ panicked = FALSE
  /\ evals = [l \in Loops |-> 0]
  /\ ticksTaken = [l \in Loops |-> 0]

\* NewManager, and the configuration it is given.
Init ==
  /\ now = 0
  /\ config \in { [CacheTTL |-> ttl, Timeout |-> TimeoutTicks,
                    FailureThreshold |-> DefaultFailureThreshold] :
                   ttl \in {0, TTLTicks} }
  /\ checkers = <<>>
  /\ requiredChecks = EmptyMap
  /\ cachedReport = NilReport
  /\ cacheTime = 0
  /\ failureCounts = [n \in Names |-> 0]
  /\ mu = "free"
  /\ op = [p \in Goroutines |-> "none"]
  /\ pc = [p \in Goroutines |-> "idle"]
  /\ phase = [p \in Goroutines |-> 0]
  /\ snap = [p \in Goroutines |-> NoSnap]
  /\ gor = [p \in Goroutines |-> <<>>]
  /\ deadline = [p \in Goroutines |-> 0]
  /\ callerCtx = [p \in Goroutines |-> FALSE]
  /\ results = [p \in Goroutines |-> EmptyMap]
  /\ report = [p \in Goroutines |-> NilReport]
  /\ ret = NoRets
  /\ calls = <<>>
  /\ ncalls = 0
  /\ everStarted = FALSE
  /\ doubleStart = FALSE
  /\ BgInit
  /\ aggIn = [checks |-> EmptyMap, requiredChecks |-> EmptyMap]
  /\ aggOut = NilReport
  /\ HealthEnabled = TRUE

\* The clock advances.
Tick ==
  /\ now < MaxTime
  /\ now' = now + 1
  /\ ret' = NoRets
  /\ UNCHANGED <<mgrVars, procVars, ghostVars, aggVars, bgVars, obsVars>>

\* m.mu.Lock() goes through: nobody holds the lock.
CanLock == mu = "free"

\* m.mu.RLock() goes through: no writer holds the lock.
CanRLock == mu \in {"free", "R"}

\* Register dropping the cached Report.
Register_InvalidatesCache(name, required) ==
  /\ CanLock
  /\ (Len(checkers) = 0 => name = FirstName)
  /\ checkers' = Append(checkers, [name |-> name, required |-> required])
  /\ requiredChecks' = MapSet(requiredChecks, name, required)
  /\ cachedReport' = NilReport
  /\ calls' = Append(calls, 0)
  /\ ret' = NoRets
  /\ UNCHANGED <<mu, now, config, cacheTime, failureCounts, procVars,
                 ncalls, everStarted, doubleStart, aggVars, bgVars, obsVars>>

\* Manager.Register
Register(name, required) ==
  /\ CanLock
  /\ (Len(checkers) = 0 => name = FirstName)
  /\ checkers' = Append(checkers, [name |-> name, required |-> required])
  /\ requiredChecks' = MapSet(requiredChecks, name, required)
  /\ calls' = Append(calls, 0)
  /\ ret' = NoRets
  /\ UNCHANGED <<mu, now, config, cachedReport, cacheTime, failureCounts, procVars,
                 ncalls, everStarted, doubleStart, aggVars, bgVars, obsVars>>


\* ------------------------------------------------------------ handler.go
\* Manager.IsReady, on the Report its Check call returned.
IsReady(rep) == rep.status = StatusHealthy \/ rep.status = StatusDegraded

\* IsStarted that stays true once it has been true.
IsStarted_Latched(rep) == rep.status = StatusHealthy \/ everStarted

\* Manager.IsStarted, on the Report its Check call returned.
IsStarted(rep) == rep.status = StatusHealthy

\* IsLive answering from the cached Report.
IsLive_FromCache == cachedReport.status # StatusUnhealthy

\* Manager.IsLive
IsLive == TRUE

\* Handler.LiveHandler
LiveHandler ==
  IF IsLive
  THEN [NoRet EXCEPT !.op = "LiveHandler", !.code = StatusOK,
                     !.status = StatusHealthy]
  ELSE [NoRet EXCEPT !.op = "LiveHandler", !.code = StatusServiceUnavailable,
                     !.status = StatusUnhealthy]

\* ReadyHandler answering 503 unless the Report is healthy.
ReadyHandler_HealthyOnly(rep) ==
  [NoRet EXCEPT !.op = "ReadyHandler",
                !.code = IF rep.status # StatusHealthy
                         THEN StatusServiceUnavailable ELSE StatusOK,
                !.status = rep.status, !.report = rep, !.full = TRUE]

\* Handler.ReadyHandler, on the Report its Check call returned.
ReadyHandler(rep) ==
  [NoRet EXCEPT !.op = "ReadyHandler",
                !.code = IF rep.status = StatusUnhealthy
                         THEN StatusServiceUnavailable ELSE StatusOK,
                !.status = rep.status, !.report = rep, !.full = TRUE]

\* Handler.FullHandler, on the Report its Check call returned.
FullHandler(rep) ==
  [NoRet EXCEPT !.op = "FullHandler",
                !.code = IF rep.status = StatusUnhealthy
                         THEN StatusServiceUnavailable ELSE StatusOK,
                !.status = rep.status, !.report = rep, !.full = TRUE]

\* Handler.StartupHandler: its answer when IsStarted was false on rep (ph = 1),
\* and when IsStarted was true and the second Check call returned rep (ph = 2).
StartupHandler(ph, rep) ==
  IF ph = 1
  THEN [NoRet EXCEPT !.op = "StartupHandler", !.code = StatusServiceUnavailable,
                     !.status = StatusUnhealthy, !.report = rep]
  ELSE [NoRet EXCEPT !.op = "StartupHandler", !.code = StatusOK,
                     !.status = rep.status, !.report = rep, !.full = TRUE]

\* HealthCheck failing on every Report that is not healthy.
HealthCheck_NotHealthy(rep) ==
  [NoRet EXCEPT !.op = "HealthCheck", !.report = rep,
                !.err = IF rep.status # StatusHealthy
                        THEN "health check failed: " \o rep.status ELSE ""]

\* Observability.HealthCheck with a manager, on the Report its Check call
\* returned.
HealthCheck(rep) ==
  [NoRet EXCEPT !.op = "HealthCheck", !.report = rep,
                !.err = IF rep.status = StatusUnhealthy
                        THEN "health check failed: " \o rep.status ELSE ""]

\* What operation o hands back once its (last) Check / runChecks call returned rep.
Outcome(o, ph, rep) ==
  CASE o = "Check" -> [NoRet EXCEPT !.op = o, !.report = rep, !.full = TRUE]
    [] o = "IsReady" -> [NoRet EXCEPT !.op = o, !.ok = IsReady(rep), !.report = rep]
    [] o = "IsStarted" -> [NoRet EXCEPT !.op = o, !.ok = IsStarted(rep), !.report = rep]
    [] o = "ReadyHandler" -> ReadyHandler(rep)
    [] o = "FullHandler" -> FullHandler(rep)
    [] o = "StartupHandler" -> StartupHandler(ph, rep)
    [] o = "HealthCheck" -> HealthCheck(rep)
    [] OTHER -> [NoRet EXCEPT !.op = o]

\* Check, IsReady, IsStarted, ReadyHandler, FullHandler and HealthCheck (with
\* a manager) all start with the same call m.Check(ctx) and differ only in what they make of the Report it
\* returns: which of them the caller is executing is drawn when the call
\* returns. StartupHandler and the background loop are told apart from the start.
Exported(o) ==
  IF o = "Check"
  THEN {"Check", "IsReady", "IsStarted", "ReadyHandler", "FullHandler",
        "HealthCheck"}
  ELSE {o}

\* The return of a Check / runChecks call of caller p with Report rep, taken
\* from the cache or not.
\* StartupHandler calls Check a second time when IsStarted answered true.
Finish(p, rep, cached) ==
  IF op[p] = "StartupHandler" /\ phase[p] = 1 /\ IsStarted(rep)
  THEN /\ phase' = [phase EXCEPT ![p] = 2]
       /\ pc' = [pc EXCEPT ![p] = "check"]
       /\ ret' = NoRets
       /\ UNCHANGED <<op, everStarted, doubleStart, callerCtx>>
  ELSE /\ \E o \in Exported(op[p]) :
            ret' = [NoRets EXCEPT ![p] =
                      [Outcome(o, phase[p], rep) EXCEPT !.cached = cached]]
       /\ everStarted' = (everStarted \/ (ret'[p].op = "IsStarted" /\ ret'[p].ok))
       /\ UNCHANGED doubleStart
       /\ pc' = [pc EXCEPT ![p] = "idle"]
       /\ op' = [op EXCEPT ![p] = "none"]
       /\ phase' = [phase EXCEPT ![p] = 0]
       /\ callerCtx' = [callerCtx EXCEPT ![p] = FALSE]

\* A caller enters an operation that calls Manager.Check (or, for the
\* background loop, runChecks directly).
Cost(o) == IF o = "StartupHandler" THEN 2 ELSE 1

StartOp(p, o) ==
  /\ pc[p] = "idle"
  /\ (p = Scheduler) <=> (o = "Background")
  /\ op' = [op EXCEPT ![p] = o]
  /\ phase' = [phase EXCEPT ![p] = 1]
  /\ pc' = [pc EXCEPT ![p] = IF o = "Background" THEN "snapshot" ELSE "check"]
  /\ ncalls' = ncalls + Cost(o)
  /\ ret' = NoRets
  /\ UNCHANGED <<now, mgrVars, snap, gor, deadline, callerCtx, results, report,
                 calls, everStarted, doubleStart, aggVars, bgVars, obsVars>>

\* A caller enters Manager.Check with a context that is cancelled already.
StartCancelled(p, o) ==
  /\ pc[p] = "idle"
  /\ p = Caller
  /\ o = "Check"
  /\ op' = [op EXCEPT ![p] = o]
  /\ phase' = [phase EXCEPT ![p] = 1]
  /\ pc' = [pc EXCEPT ![p] = "check"]
  /\ callerCtx' = [callerCtx EXCEPT ![p] = TRUE]
  /\ ncalls' = ncalls + Cost(o)
  /\ ret' = NoRets
  /\ UNCHANGED <<now, mgrVars, snap, gor, deadline, results, report,
                 calls, everStarted, doubleStart, aggVars, bgVars, obsVars>>

\* A call of Manager.IsLive.
DoIsLive(p) ==
  /\ pc[p] = "idle"
  /\ p = Caller
  /\ ret' = [NoRets EXCEPT ![p] = [NoRet EXCEPT !.op = "IsLive", !.ok = IsLive]]
  /\ UNCHANGED <<now, mgrVars, op, pc, phase, snap, gor, deadline, callerCtx, results,
                 report, ghostVars, aggVars, bgVars, obsVars>>

\* A request on the liveness route.
DoLiveHandler(p) ==
  /\ pc[p] = "idle"
  /\ p = Caller
  /\ ret' = [NoRets EXCEPT ![p] = LiveHandler]
  /\ UNCHANGED <<now, mgrVars, op, pc, phase, snap, gor, deadline, callerCtx, results,
                 report, ghostVars, aggVars, bgVars, obsVars>>

\* Manager.GetFailureCount
GetFailureCount(p, name) ==
  /\ CanRLock
  /\ pc[p] = "idle"
  /\ p = Caller
  /\ ret' = [NoRets EXCEPT ![p] =
               [NoRet EXCEPT !.op = "GetFailureCount", !.name = name,
                             !.count = failureCounts[name]]]
  /\ UNCHANGED <<now, mgrVars, op, pc, phase, snap, gor, deadline, callerCtx, results,
                 report, ghostVars, aggVars, bgVars, obsVars>>

\* Observability.HealthCheck without a manager (HealthEnabled false).
HealthCheckNoManager(p) ==
  /\ ~HealthEnabled
  /\ p = Caller
  /\ ret' = [NoRets EXCEPT ![p] = [NoRet EXCEPT !.op = "HealthCheck"]]
  /\ UNCHANGED <<now, mgrVars, procVars, ghostVars, aggVars, bgVars, obsVars>>

\* ------------------------------------------------------------ Manager.Check
\* The cache test with the comparison turned round.
Fresh_Inverted == cachedReport # NilReport /\ now - cacheTime > config.CacheTTL

\* The cache test with <= for <.
Fresh_OrEqual == cachedReport # NilReport /\ now - cacheTime <= config.CacheTTL

\* Manager.Check: a cached Report exists and its age is below CacheTTL.
Fresh == cachedReport # NilReport /\ now - cacheTime < config.CacheTTL

\* The fast path of Manager.Check: the test of the cache under RLock.
CacheTest(p) ==
  /\ CanRLock
  /\ pc[p] = "check"
  /\ IF Fresh
     THEN /\ Finish(p, cachedReport, TRUE)
     ELSE /\ pc' = [pc EXCEPT ![p] = "snapshot"]
          /\ ret' = NoRets
          /\ UNCHANGED <<op, phase, everStarted, doubleStart, callerCtx>>
  /\ UNCHANGED <<now, mgrVars, snap, gor, deadline, results, report,
                 calls, ncalls, aggVars, bgVars, obsVars>>

InCycle(p) == pc[p] \in {"collect", "commit"}

\* Snapshot keeping the read lock while the checkers run (RUnlock deferred).
Snapshot_HoldsRLock(p) ==
  /\ CanRLock
  /\ pc[p] = "snapshot"
  /\ mu' = "R"
  /\ snap' = [snap EXCEPT ![p] =
               [checkers |-> checkers, requiredChecks |-> requiredChecks]]
  /\ gor' = [gor EXCEPT ![p] = [i \in 1..Len(checkers) |-> "running"]]
  /\ deadline' = [deadline EXCEPT ![p] = now + config.Timeout]
  /\ results' = [results EXCEPT ![p] = EmptyMap]
  /\ pc' = [pc EXCEPT ![p] = "collect"]
  /\ calls' = [i \in DOMAIN calls |-> calls[i] + 1]
  /\ ret' = NoRets
  /\ UNCHANGED <<now, config, checkers, requiredChecks, cachedReport, cacheTime,
                 failureCounts, op, phase, callerCtx, report, ncalls, everStarted,
                 doubleStart, aggVars, bgVars, obsVars>>

\* Snapshot joining a cycle that is under way: the checkers are invoked only
\* when no other cycle runs.
Snapshot_Coalesced(p) ==
  /\ CanRLock
  /\ pc[p] = "snapshot"
  /\ snap' = [snap EXCEPT ![p] =
               [checkers |-> checkers, requiredChecks |-> requiredChecks]]
  /\ gor' = [gor EXCEPT ![p] = [i \in 1..Len(checkers) |-> "running"]]
  /\ deadline' = [deadline EXCEPT ![p] = now + config.Timeout]
  /\ results' = [results EXCEPT ![p] = EmptyMap]
  /\ pc' = [pc EXCEPT ![p] = "collect"]
  /\ calls' = IF \E q \in Procs \ {p} : InCycle(q)
              THEN calls ELSE [i \in DOMAIN calls |-> calls[i] + 1]
  /\ ret' = NoRets
  /\ UNCHANGED <<now, mgrVars, op, phase, callerCtx, report, ncalls, everStarted,
                 doubleStart, aggVars, bgVars, obsVars>>

\* runChecks: the copies taken under RLock, and the launch of one goroutine
\* per checker, each calling c.Check under a context with the timeout.
Snapshot(p) ==
  /\ CanRLock
  /\ pc[p] = "snapshot"
  /\ snap' = [snap EXCEPT ![p] =
               [checkers |-> checkers, requiredChecks |-> requiredChecks]]
  /\ gor' = [gor EXCEPT ![p] = [i \in 1..Len(checkers) |-> "running"]]
  /\ deadline' = [deadline EXCEPT ![p] = now + config.Timeout]
  /\ results' = [results EXCEPT ![p] = EmptyMap]
  /\ pc' = [pc EXCEPT ![p] = "collect"]
  /\ calls' = [i \in DOMAIN calls |-> calls[i] + 1]
  /\ ret' = NoRets
  /\ UNCHANGED <<now, mgrVars, op, phase, callerCtx, report, ncalls, everStarted, doubleStart,
                 aggVars, bgVars, obsVars>>

\* CountResult counting only unhealthy results as failures.
CountResult_OnlyUnhealthy(counts, name, r) ==
  IF r.status = StatusUnhealthy
  THEN [counts EXCEPT ![name] = @ + 1]
  ELSE [counts EXCEPT ![name] = 0]

\* The new value of failureCounts after a result of checker `name`.
CountResult(counts, name, r) ==
  IF r.status # StatusHealthy
  THEN [counts EXCEPT ![name] = @ + 1]
  ELSE [counts EXCEPT ![name] = 0]

\* Collect keeping the entry a name already has in results.
Collect_KeepFirst(p, i, r) ==
  /\ CanLock
  /\ pc[p] = "collect"
  /\ i \in DOMAIN gor[p]
  /\ gor[p][i] = "running"
  /\ r.error = DeadlineExceeded => now >= deadline[p]
  /\ r.error = Canceled => callerCtx[p]
  /\ gor' = [gor EXCEPT ![p][i] = "done"]
  /\ ret' = NoRets
  /\ LET name == snap[p].checkers[i].name
     IN  /\ results' = [results EXCEPT ![p] =
                          IF name \in DOMAIN @ THEN @ ELSE MapSet(@, name, r)]
         /\ failureCounts' = CountResult(failureCounts, name, r)
  /\ UNCHANGED <<mu, now, config, checkers, requiredChecks, cachedReport, cacheTime,
                 op, pc, phase, snap, deadline, callerCtx, report, calls, ncalls,
                 everStarted, doubleStart, aggVars, bgVars, obsVars>>

\* A checker's Check returns r, its goroutine sends (name, r) on resultCh and
\* the loop `for r := range resultCh` receives it: the entry of results and the
\* failure counter are updated. A Result that reports the expiry of the
\* deadline needs the deadline to have expired.
Collect(p, i, r) ==
  /\ CanLock
  /\ pc[p] = "collect"
  /\ i \in DOMAIN gor[p]
  /\ gor[p][i] = "running"
  /\ r.error = DeadlineExceeded => now >= deadline[p]
  /\ r.error = Canceled => callerCtx[p]
  /\ gor' = [gor EXCEPT ![p][i] = "done"]
  /\ ret' = NoRets
  /\ LET name == snap[p].checkers[i].name
     IN  /\ results' = [results EXCEPT ![p] = MapSet(@, name, r)]
         /\ failureCounts' = CountResult(failureCounts, name, r)
  /\ UNCHANGED <<mu, now, config, checkers, requiredChecks, cachedReport, cacheTime,
                 op, pc, phase, snap, deadline, callerCtx, report, calls, ncalls, everStarted, doubleStart,
                 aggVars, bgVars, obsVars>>

\* A checker that ignores its context blocks past its deadline for good.
Hang(p, i) ==
  /\ pc[p] = "collect"
  /\ i \in DOMAIN gor[p]
  /\ gor[p][i] = "running"
  /\ now >= deadline[p]
  /\ gor' = [gor EXCEPT ![p][i] = "hung"]
  /\ ret' = NoRets
  /\ UNCHANGED <<now, mgrVars, op, pc, phase, snap, deadline, callerCtx, results,
                 report, ghostVars, aggVars, bgVars, obsVars>>

\* runChecks building the Report without wg.Wait: from the results so far.
Aggregate_NoWait(p) ==
  /\ pc[p] = "collect"
  /\ \E order \in Orders(DOMAIN results[p]) :
       report' = [report EXCEPT ![p] =
                    NewReport(order, results[p], snap[p].requiredChecks, now)]
  /\ pc' = [pc EXCEPT ![p] = "commit"]
  /\ ret' = NoRets
  /\ UNCHANGED <<now, mgrVars, op, phase, snap, gor, deadline, callerCtx, results,
                 ghostVars, aggVars, bgVars, obsVars>>

\* Aggregate counting a required checker's failure only once its failure
\* counter has reached FailureThreshold.
Aggregate_Thresholded(p) ==
  /\ pc[p] = "collect"
  /\ \A i \in DOMAIN gor[p] : gor[p][i] = "done"
  /\ \E order \in Orders(DOMAIN results[p]) :
       report' = [report EXCEPT ![p] =
                    NewReport(order, results[p],
                              [n \in DOMAIN snap[p].requiredChecks |->
                                 /\ snap[p].requiredChecks[n]
                                 /\ failureCounts[n] >= config.FailureThreshold],
                              now)]
  /\ pc' = [pc EXCEPT ![p] = "commit"]
  /\ ret' = NoRets
  /\ UNCHANGED <<now, mgrVars, op, phase, snap, gor, deadline, callerCtx, results,
                 ghostVars, aggVars, bgVars, obsVars>>

\* runChecks: every goroutine has sent, resultCh is closed and drained;
\* NewReport builds the Report.
Aggregate(p) ==
  /\ pc[p] = "collect"
  /\ \A i \in DOMAIN gor[p] : gor[p][i] = "done"
  /\ \E order \in Orders(DOMAIN results[p]) :
       report' = [report EXCEPT ![p] =
                    NewReport(order, results[p], snap[p].requiredChecks, now)]
  /\ pc' = [pc EXCEPT ![p] = "commit"]
  /\ ret' = NoRets
  /\ UNCHANGED <<now, mgrVars, op, phase, snap, gor, deadline, callerCtx, results,
                 ghostVars, aggVars, bgVars, obsVars>>

\* Commit leaving the cache alone when the caller's context is cancelled.
Commit_SkipsCancelled(p) ==
  /\ CanLock
  /\ pc[p] = "commit"
  /\ cachedReport' = IF callerCtx[p] THEN cachedReport ELSE report[p]
  /\ cacheTime' = IF callerCtx[p] THEN cacheTime ELSE now
  /\ Finish(p, report[p], FALSE)
  /\ snap' = [snap EXCEPT ![p] = NoSnap]
  /\ gor' = [gor EXCEPT ![p] = <<>>]
  /\ deadline' = [deadline EXCEPT ![p] = 0]
  /\ results' = [results EXCEPT ![p] = EmptyMap]
  /\ report' = [report EXCEPT ![p] = NilReport]
  /\ UNCHANGED <<mu, now, config, checkers, requiredChecks, failureCounts,
                 calls, ncalls, aggVars, bgVars, obsVars>>

\* runChecks: the Report is stored in the cache and returned.
Commit(p) ==
  /\ CanLock
  /\ pc[p] = "commit"
  /\ cachedReport' = report[p]
  /\ cacheTime' = now
  /\ Finish(p, report[p], FALSE)
  /\ snap' = [snap EXCEPT ![p] = NoSnap]
  /\ gor' = [gor EXCEPT ![p] = <<>>]
  /\ deadline' = [deadline EXCEPT ![p] = 0]
  /\ results' = [results EXCEPT ![p] = EmptyMap]
  /\ report' = [report EXCEPT ![p] = NilReport]
  /\ UNCHANGED <<mu, now, config, checkers, requiredChecks, failureCounts,
                 calls, ncalls, aggVars, bgVars, obsVars>>

\* No operation is under way.
Quiet == \A q \in Procs : pc[q] = "idle"

\* The operations run one after the other, as in the package's tests: a
\* registration (each under a name of its own), a background cycle or an
\* operation of the caller starts when no other is under way. The clock
\* advances at any time.
Next ==
  \/ Tick
  \/ \E n \in Names, b \in BOOLEAN :
       /\ Quiet /\ Len(checkers) < MaxCheckers
       /\ \A i \in DOMAIN checkers : checkers[i].name # n
       /\ Register(n, b)
  \/ \E p \in Procs, o \in CheckOps :
       Quiet /\ ncalls + Cost(o) <= MaxCalls /\ StartOp(p, o)
  \/ \E p \in Procs : Quiet /\ DoIsLive(p)
  \/ \E p \in Procs : Quiet /\ DoLiveHandler(p)
  \/ \E p \in Procs, n \in Names : Quiet /\ GetFailureCount(p, n)
  \/ \E p \in Procs : CacheTest(p)
  \/ \E p \in Procs : Snapshot(p)
  \/ \E p \in Procs, i \in 1..MaxCheckers, r \in CheckerResults : Collect(p, i, r)
  \/ \E p \in Procs, i \in 1..MaxCheckers : Hang(p, i)
  \/ \E p \in Procs : Aggregate(p)
  \/ \E p \in Procs : Commit(p)

Spec == Init /\ [][Next]_vars

\* ----------------------------------------------------- concurrent callers
\* What the checkers return here: they pass or fail.
ConcResults == {NewHealthyResult, NewUnhealthyResult("check failed")}

\* What the checkers return where only the scheduling matters: they pass.
BgResults == {NewHealthyResult}

\* A registration and a GetFailureCount run at any time, also while a cycle
\* of the background goroutine or of a Check call is under way; the cycles
\* themselves follow one another. The clock stands.
NextConc ==
  \/ \E n \in Names, b \in BOOLEAN :
       Len(checkers) < MaxConcCheckers /\ Register(n, b)
  \/ \E p \in Procs, o \in CheckOps :
       Quiet /\ ncalls + Cost(o) <= MaxCalls /\ StartOp(p, o)
  \/ \E p \in Procs, n \in Names : GetFailureCount(p, n)
  \/ \E p \in Procs : CacheTest(p)
  \/ \E p \in Procs : Snapshot(p)
  \/ \E p \in Procs, i \in 1..MaxConcCheckers, r \in ConcResults :
       Collect(p, i, r)
  \/ \E p \in Procs : Aggregate(p)
  \/ \E p \in Procs : Commit(p)

SpecConc == Init /\ [][NextConc]_vars

\* ------------------------------------------------------ overlapping cycles
\* Whatever the callers do at the same time: a Check call and a background
\* cycle start, run and commit in any interleaving, next to registrations
\* (each under a name of its own) and GetFailureCount calls. The checkers
\* pass and the clock stands.
NextOverlap ==
  \/ \E n \in Names, b \in BOOLEAN :
       /\ Len(checkers) < MaxCheckers
       /\ \A i \in DOMAIN checkers : checkers[i].name # n
       /\ Register(n, b)
  \/ \E p \in Procs, o \in {"Check", "Background"} :
       ncalls + Cost(o) <= MaxOverlapCalls /\ StartOp(p, o)
  \/ \E p \in Procs, n \in Names : GetFailureCount(p, n)
  \/ \E p \in Procs : CacheTest(p)
  \/ \E p \in Procs : Snapshot(p)
  \/ \E p \in Procs, i \in 1..MaxCheckers, r \in BgResults : Collect(p, i, r)
  \/ \E p \in Procs : Aggregate(p)
  \/ \E p \in Procs : Commit(p)

SpecOverlap == Init /\ [][NextOverlap]_vars

\* The checkers are registered first, and they pass; then a Check call and
\* a background cycle start, run and commit in any interleaving while the
\* clock advances.
NextRace ==
  \/ Tick
  \/ \E n \in Names, b \in BOOLEAN :
       ncalls = 0 /\ Len(checkers) < MaxCheckers /\ Register(n, b)
  \/ \E p \in Procs, o \in {"Check", "Background"} :
       ncalls + Cost(o) <= MaxCalls /\ StartOp(p, o)
  \/ \E p \in Procs : CacheTest(p)
  \/ \E p \in Procs : Snapshot(p)
  \/ \E p \in Procs, i \in 1..MaxCheckers, r \in BgResults : Collect(p, i, r)
  \/ \E p \in Procs : Aggregate(p)
  \/ \E p \in Procs : Commit(p)

SpecRace == Init /\ [][NextRace]_vars

\* ------------------------------------------------------ cancelled callers
\* The operations run one after the other; a Check call may come with a
\* context that is cancelled already, and the checkers respect their context.
NextCancel ==
  \/ Tick
  \/ \E n \in Names, b \in BOOLEAN :
       Quiet /\ Len(checkers) < MaxCheckers /\ Register(n, b)
  \/ \E p \in Procs, o \in {"Check", "Background"} :
       Quiet /\ ncalls + Cost(o) <= MaxCalls /\ StartOp(p, o)
  \/ \E p \in Procs, o \in {"Check"} :
       Quiet /\ ncalls + Cost(o) <= MaxCalls /\ StartCancelled(p, o)
  \/ \E p \in Procs, n \in Names : Quiet /\ GetFailureCount(p, n)
  \/ \E p \in Procs : CacheTest(p)
  \/ \E p \in Procs : Snapshot(p)
  \/ \E p \in Procs, i \in 1..MaxCheckers :
       \E e \in CheckFnErrors(callerCtx[p]) : Collect(p, i, FuncChecker_Check(e))
  \/ \E p \in Procs : Aggregate(p)
  \/ \E p \in Procs : Commit(p)

SpecCancel == Init /\ [][NextCancel]_vars

\* ------------------------------------------------------ failure history
\* NewManager under either FailureThreshold.
InitHist ==
  /\ now = 0
  /\ config \in { [CacheTTL |-> ttl, Timeout |-> TimeoutTicks,
                    FailureThreshold |-> th] :
                   ttl \in {0, TTLTicks},
                   th \in {TestFailureThreshold, DefaultFailureThreshold} }
  /\ checkers = <<>>
  /\ requiredChecks = EmptyMap
  /\ cachedReport = NilReport
  /\ cacheTime = 0
  /\ failureCounts = [n \in Names |-> 0]
  /\ mu = "free"
  /\ op = [p \in Goroutines |-> "none"]
  /\ pc = [p \in Goroutines |-> "idle"]
  /\ phase = [p \in Goroutines |-> 0]
  /\ snap = [p \in Goroutines |-> NoSnap]
  /\ gor = [p \in Goroutines |-> <<>>]
  /\ deadline = [p \in Goroutines |-> 0]
  /\ callerCtx = [p \in Goroutines |-> FALSE]
  /\ results = [p \in Goroutines |-> EmptyMap]
  /\ report = [p \in Goroutines |-> NilReport]
  /\ ret = NoRets
  /\ calls = <<>>
  /\ ncalls = 0
  /\ everStarted = FALSE
  /\ doubleStart = FALSE
  /\ BgInit
  /\ aggIn = [checks |-> EmptyMap, requiredChecks |-> EmptyMap]
  /\ aggOut = NilReport
  /\ HealthEnabled = TRUE

\* What the checkers return when the clock stands: any status.
HistResults ==
  { NewHealthyResult, NewUnhealthyResult("check failed"),
    NewDegradedResult("high latency") }

\* Check call after Check call over up to MaxConcCheckers checkers, each
\* cycle adding to the failure history; the clock stands.
NextHist ==
  \/ \E n \in Names, b \in BOOLEAN :
       Quiet /\ Len(checkers) < MaxConcCheckers /\ Register(n, b)
  \/ \E p \in Procs, o \in {"Check"} :
       Quiet /\ ncalls + Cost(o) <= MaxCalls /\ StartOp(p, o)
  \/ \E p \in Procs : CacheTest(p)
  \/ \E p \in Procs : Snapshot(p)
  \/ \E p \in Procs, i \in 1..MaxConcCheckers, r \in HistResults :
       Collect(p, i, r)
  \/ \E p \in Procs : Aggregate(p)
  \/ \E p \in Procs : Commit(p)

SpecHist == InitHist /\ [][NextHist]_vars

\* ------------------------------------------- StartBackground / StopBackground
\* Manager.StartBackground: `go func() {...}()`; the call returns at once.
\* Nothing in it looks at a goroutine started before.
StartBackground(l) ==
  /\ bgpc[l] = "none"
  /\ l = Scheduler2 => bgpc[Scheduler] # "none"
  /\ bgpc' = [bgpc EXCEPT ![l] = "initial"]
  /\ doubleStart' = (doubleStart \/ \E k \in Loops : bgpc[k] \in {"initial", "loop"})
  /\ ret' = NoRets
  /\ UNCHANGED <<now, mgrVars, procVars, calls, ncalls, everStarted, aggVars, obsVars, stopCh,
                 doneCh, ctxDone, tickerC, fired, stoppc, stops, stopsReturned,
                 panicked, evals, ticksTaken>>

\* The goroutine entering the loop without the initial m.runChecks(ctx).
BgInitial_WaitFirst(l) ==
  /\ bgpc[l] = "initial"
  /\ bgpc' = [bgpc EXCEPT ![l] = "loop"]
  /\ ret' = NoRets
  /\ UNCHANGED <<now, mgrVars, procVars, ghostVars, aggVars, obsVars, stopCh,
                 doneCh, ctxDone, tickerC, fired, stoppc, stops, stopsReturned,
                 panicked, evals, ticksTaken>>

\* The goroutine starts: time.NewTicker, the two defers, and the call of the
\* initial m.runChecks(ctx).
BgInitial(l) ==
  /\ bgpc[l] = "initial"
  /\ bgpc' = [bgpc EXCEPT ![l] = "loop"]
  /\ op' = [op EXCEPT ![l] = "Background"]
  /\ phase' = [phase EXCEPT ![l] = 1]
  /\ pc' = [pc EXCEPT ![l] = "snapshot"]
  /\ evals' = [evals EXCEPT ![l] = @ + 1]
  /\ ret' = NoRets
  /\ UNCHANGED <<now, mgrVars, snap, gor, deadline, callerCtx, results, report, ghostVars,
                 aggVars, obsVars, stopCh, doneCh, ctxDone, tickerC, fired,
                 stoppc, stops, stopsReturned, panicked, ticksTaken>>

\* The ticker of goroutine l fires: ticker.C (capacity 1) takes the tick, or
\* the tick is dropped when the last one has not been received.
TickerFire(l) ==
  /\ bgpc[l] = "loop"
  /\ fired < MaxTicks
  /\ fired' = fired + 1
  /\ tickerC' = [tickerC EXCEPT ![l] = TRUE]
  /\ ret' = NoRets
  /\ UNCHANGED <<now, mgrVars, procVars, ghostVars, aggVars, obsVars, stopCh,
                 doneCh, ctxDone, bgpc, stoppc, stops, stopsReturned, panicked,
                 evals, ticksTaken>>

\* select, case <-ticker.C: the call of m.runChecks(ctx).
BgTick(l) ==
  /\ bgpc[l] = "loop"
  /\ pc[l] = "idle"
  /\ tickerC[l]
  /\ tickerC' = [tickerC EXCEPT ![l] = FALSE]
  /\ op' = [op EXCEPT ![l] = "Background"]
  /\ phase' = [phase EXCEPT ![l] = 1]
  /\ pc' = [pc EXCEPT ![l] = "snapshot"]
  /\ evals' = [evals EXCEPT ![l] = @ + 1]
  /\ ticksTaken' = [ticksTaken EXCEPT ![l] = @ + 1]
  /\ ret' = NoRets
  /\ UNCHANGED <<now, mgrVars, snap, gor, deadline, callerCtx, results, report, ghostVars,
                 aggVars, obsVars, stopCh, doneCh, ctxDone, bgpc, fired, stoppc,
                 stops, stopsReturned, panicked>>

\* The select of the loop without its case <-ctx.Done().
BgReturn_StopOnly(l) ==
  /\ bgpc[l] = "loop"
  /\ pc[l] = "idle"
  /\ stopCh = "closed"
  /\ bgpc' = [bgpc EXCEPT ![l] = "stopped"]
  /\ tickerC' = [tickerC EXCEPT ![l] = FALSE]
  /\ IF doneCh = "closed"
     THEN panicked' = TRUE /\ UNCHANGED doneCh
     ELSE doneCh' = "closed" /\ UNCHANGED panicked
  /\ ret' = NoRets
  /\ UNCHANGED <<now, mgrVars, procVars, ghostVars, aggVars, obsVars, stopCh,
                 ctxDone, fired, stoppc, stops, stopsReturned, evals, ticksTaken>>

\* select, case <-m.stopCh ("stopped") or case <-ctx.Done() ("cancelled"):
\* return, and the deferred close(m.doneCh) and ticker.Stop(). Closing a
\* closed channel panics.
BgReturn(l) ==
  /\ bgpc[l] = "loop"
  /\ pc[l] = "idle"
  /\ \E case \in {"stopped", "cancelled"} :
       /\ case = "stopped" => stopCh = "closed"
       /\ case = "cancelled" => ctxDone
       /\ bgpc' = [bgpc EXCEPT ![l] = case]
  /\ tickerC' = [tickerC EXCEPT ![l] = FALSE]
  /\ IF doneCh = "closed"
     THEN panicked' = TRUE /\ UNCHANGED doneCh
     ELSE doneCh' = "closed" /\ UNCHANGED panicked
  /\ ret' = NoRets
  /\ UNCHANGED <<now, mgrVars, procVars, ghostVars, aggVars, obsVars, stopCh,
                 ctxDone, fired, stoppc, stops, stopsReturned, evals, ticksTaken>>

\* The context handed to StartBackground is cancelled.
Cancel ==
  /\ ~ctxDone
  /\ ctxDone' = TRUE
  /\ ret' = NoRets
  /\ UNCHANGED <<now, mgrVars, procVars, ghostVars, aggVars, obsVars, stopCh,
                 doneCh, bgpc, tickerC, fired, stoppc, stops, stopsReturned,
                 panicked, evals, ticksTaken>>

\* Manager.StopBackground, close(m.stopCh). Closing a closed channel panics.
StopClose ==
  /\ stoppc = "idle"
  /\ stops < MaxStops
  /\ stops' = stops + 1
  /\ IF stopCh = "closed"
     THEN panicked' = TRUE /\ UNCHANGED <<stopCh, stoppc>>
     ELSE stopCh' = "closed" /\ stoppc' = "wait" /\ UNCHANGED panicked
  /\ ret' = NoRets
  /\ UNCHANGED <<now, mgrVars, procVars, ghostVars, aggVars, obsVars, doneCh,
                 ctxDone, bgpc, tickerC, fired, stopsReturned, evals, ticksTaken>>

\* StopBackground returning without the receive from doneCh.
StopReturn_NoWait ==
  /\ stoppc = "wait"
  /\ stoppc' = "idle"
  /\ stopsReturned' = stopsReturned + 1
  /\ ret' = NoRets
  /\ UNCHANGED <<now, mgrVars, procVars, ghostVars, aggVars, obsVars, stopCh,
                 doneCh, ctxDone, bgpc, tickerC, fired, stops, panicked, evals,
                 ticksTaken>>

\* Manager.StopBackground, <-m.doneCh: the receive goes through once doneCh
\* is closed, and StopBackground returns.
StopReturn ==
  /\ stoppc = "wait"
  /\ doneCh = "closed"
  /\ stoppc' = "idle"
  /\ stopsReturned' = stopsReturned + 1
  /\ ret' = NoRets
  /\ UNCHANGED <<now, mgrVars, procVars, ghostVars, aggVars, obsVars, stopCh,
                 doneCh, ctxDone, bgpc, tickerC, fired, stops, panicked, evals,
                 ticksTaken>>

\* What the background goroutine l can do next; its checkers return.
BgStep(l) ==
  \/ BgInitial(l)
  \/ BgTick(l)
  \/ BgReturn(l)
  \/ Snapshot(l)
  \/ \E i \in 1..MaxCheckers, r \in BgResults : Collect(l, i, r)
  \/ Aggregate(l)
  \/ Commit(l)

\* The required checkers are registered first; a panic ends the process.
NextBg ==
  \/ \E n \in Names :
       /\ \A l \in Loops : bgpc[l] = "none"
       /\ stops = 0 /\ ~ctxDone /\ Len(checkers) < MaxCheckers
       /\ Register(n, TRUE)
  \/ \E l \in Loops : ~panicked /\ Len(checkers) = MaxCheckers /\ StartBackground(l)
  \/ \E l \in Loops : ~panicked /\ TickerFire(l)
  \/ \E l \in Loops : ~panicked /\ BgStep(l)
  \/ ~panicked /\ Cancel
  \/ ~panicked /\ StopClose
  \/ ~panicked /\ StopReturn

\* A goroutine that can run does run: the background goroutine and its
\* checker goroutines, and the caller blocked in StopBackground.
FairBg ==
  /\ \A l \in Loops : WF_vars(~panicked /\ BgStep(l))
  /\ WF_vars(~panicked /\ StopReturn)

SpecBg == Init /\ [][NextBg]_vars /\ FairBg

\* ---------------------------------------------------------- observability.go
\* New: the health manager exists iff cfg.HealthEnabled.
InitObs ==
  /\ HealthEnabled \in BOOLEAN
  /\ now = 0
  /\ config \in { [CacheTTL |-> ttl, Timeout |-> TimeoutTicks,
                    FailureThreshold |-> DefaultFailureThreshold] :
                   ttl \in {0, TTLTicks} }
  /\ checkers = <<>>
  /\ requiredChecks = EmptyMap
  /\ cachedReport = NilReport
  /\ cacheTime = 0
  /\ failureCounts = [n \in Names |-> 0]
  /\ mu = "free"
  /\ op = [p \in Goroutines |-> "none"]
  /\ pc = [p \in Goroutines |-> "idle"]
  /\ phase = [p \in Goroutines |-> 0]
  /\ snap = [p \in Goroutines |-> NoSnap]
  /\ gor = [p \in Goroutines |-> <<>>]
  /\ deadline = [p \in Goroutines |-> 0]
  /\ callerCtx = [p \in Goroutines |-> FALSE]
  /\ results = [p \in Goroutines |-> EmptyMap]
  /\ report = [p \in Goroutines |-> NilReport]
  /\ ret = NoRets
  /\ calls = <<>>
  /\ ncalls = 0
  /\ everStarted = FALSE
  /\ doubleStart = FALSE
  /\ BgInit
  /\ aggIn = [checks |-> EmptyMap, requiredChecks |-> EmptyMap]
  /\ aggOut = NilReport

\* The manager's operations exist only with a manager; HealthCheck answers
\* without one.
NextObs ==
  \/ HealthEnabled /\ Next
  \/ \E p \in Procs : HealthCheckNoManager(p)

SpecObs == InitObs /\ [][NextObs]_vars


\* ------------------------------------------------- the manager's claims
\* Caller p takes a step of its own.
Stepped(p) == pc'[p] # pc[p] \/ phase'[p] # phase[p]

\* The goroutine of checker i of p's cycle delivers its result in this step.
Delivered(p, i) ==
  /\ i \in DOMAIN gor[p] /\ gor[p][i] = "running"
  /\ i \in DOMAIN gor'[p] /\ gor'[p][i] = "done"

UniqueNames(cs) == \A i, j \in DOMAIN cs : cs[i].name = cs[j].name => i = j

\* C4: when a cached Report exists and its age is below CacheTTL, the Check
\* call starts no evaluation cycle, invokes no checker, leaves the cache and
\* the failure counters as they are and returns the cached Report.
C4_CacheHitReadsOnly ==
  [][\A p \in Procs :
       ( /\ pc[p] = "check"
         /\ cachedReport # NilReport
         /\ now - cacheTime < config.CacheTTL
         /\ Stepped(p) )
       => /\ pc'[p] \in {"idle", "check"}
          /\ calls' = calls
          /\ cachedReport' = cachedReport
          /\ cacheTime' = cacheTime
          /\ failureCounts' = failureCounts
          /\ pc'[p] = "idle" => (ret'[p].report = cachedReport /\ ret'[p].cached)
    ]_vars

\* The second of two Check calls has returned the cached Report, and every
\* registered checker has been invoked once in all.
C4_Witness ==
  /\ ret[Caller].op = "Check"
  /\ ret[Caller].cached
  /\ ret[Caller].report = cachedReport
  /\ ncalls = 2
  /\ Len(calls) = MaxCheckers
  /\ \A i \in DOMAIN calls : calls[i] = 1
  /\ \A i \in DOMAIN checkers : checkers[i].name \in DOMAIN cachedReport.checks

\* C5 as it stands: once the cached Report's age is not below CacheTTL, the
\* next Check call starts a cycle that invokes every registered checker,
\* stores the new Report in the cache and returns it, and the new Report's
\* timestamp is later than the old one's.
C5_ExpiryLaterTimestamp ==
  [][\A p \in Procs :
       /\ ( /\ pc[p] = "check"
            /\ cachedReport # NilReport
            /\ now - cacheTime >= config.CacheTTL
            /\ Stepped(p) )
          => pc'[p] = "snapshot"
       /\ (pc[p] = "snapshot" /\ Stepped(p) /\ op[p] # "Background")
          => calls' = [i \in DOMAIN checkers |-> calls[i] + 1]
       /\ (pc[p] = "commit" /\ Stepped(p) /\ op[p] # "Background")
          => /\ cachedReport' = report[p]
             /\ pc'[p] = "idle" => (ret'[p].report = report[p] /\ ~ret'[p].cached)
             /\ cachedReport # NilReport
                  => report[p].timestamp > cachedReport.timestamp
    ]_vars

\* C5, amended: the same, but the new Report's timestamp is only known not to
\* be earlier than the old one's; it is later whenever CacheTTL > 0.
C5_ExpiryReevaluates ==
  [][\A p \in Procs :
       /\ ( /\ pc[p] = "check"
            /\ cachedReport # NilReport
            /\ now - cacheTime >= config.CacheTTL
            /\ Stepped(p) )
          => pc'[p] = "snapshot"
       /\ (pc[p] = "snapshot" /\ Stepped(p) /\ op[p] # "Background")
          => calls' = [i \in DOMAIN checkers |-> calls[i] + 1]
       /\ (pc[p] = "commit" /\ Stepped(p) /\ op[p] # "Background")
          => /\ cachedReport' = report[p]
             /\ pc'[p] = "idle" => (ret'[p].report = report[p] /\ ~ret'[p].cached)
             /\ cachedReport # NilReport
                  => /\ report[p].timestamp >= cachedReport.timestamp
                     /\ config.CacheTTL > 0
                          => report[p].timestamp > cachedReport.timestamp
    ]_vars

\* With CacheTTL > 0, a Check call found the cache expired, invoked the
\* checker a second time and returned a Report with a later timestamp.
C5_Witness ==
  /\ config.CacheTTL > 0
  /\ ret[Caller].op = "Check"
  /\ ~ret[Caller].cached
  /\ ret[Caller].report = cachedReport
  /\ Len(calls) >= 1
  /\ calls[1] = 2
  /\ cachedReport.timestamp > 0

\* What a cycle that waits for its checkers can do next.
CycleStep(p) ==
  \/ \E i \in 1..MaxCheckers, r \in CheckerResults : Collect(p, i, r)
  \/ Aggregate(p)

\* C6: a cycle whose per-check deadline has expired does not stay waiting
\* for a checker that has not returned: it can go on to completion.
C6_CycleGoesOnAtDeadline ==
  \A p \in Procs :
    (pc[p] = "collect" /\ now >= deadline[p]) => ENABLED CycleStep(p)

\* C7: over uniquely named checkers (cycles not overlapping), each result a
\* cycle collects sets that checker's failure counter to one more than it was
\* when the result is not healthy and to 0 when it is healthy, nothing else
\* changes a counter, and GetFailureCount returns the counter.
C7_CounterFollowsResults ==
  [][ /\ \A p \in Procs, i \in 1..MaxCheckers :
           (Delivered(p, i) /\ UniqueNames(snap[p].checkers))
           => LET n == snap[p].checkers[i].name
              IN  /\ failureCounts'[n] =
                       IF results'[p][n].status = StatusHealthy
                       THEN 0 ELSE failureCounts[n] + 1
                  /\ \A m \in Names \ {n} : failureCounts'[m] = failureCounts[m]
      /\ (\A p \in Procs, i \in 1..MaxCheckers : ~Delivered(p, i))
           => failureCounts' = failureCounts
      /\ \A p \in Procs :
           ret'[p].op = "GetFailureCount"
           => ret'[p].count = failureCounts[ret'[p].name]
    ]_vars

\* GetFailureCount answers 2 for a uniquely named checker whose last result
\* was degraded.
C7_Witness ==
  /\ UniqueNames(checkers)
  /\ ret[Caller].op = "GetFailureCount"
  /\ ret[Caller].count = 2
  /\ ret[Caller].name \in DOMAIN cachedReport.checks
  /\ cachedReport.checks[ret[Caller].name].status = StatusDegraded

\* C8: IsReady is true exactly when the aggregate status Check returned is
\* healthy or degraded; the readiness and the full-report route answer 503
\* exactly when it is unhealthy and 200 otherwise, with the Report as body.
C8_ReadinessTruthTable ==
  \A p \in Procs :
    /\ ret[p].op = "IsReady"
       => /\ ret[p].report = cachedReport
          /\ ret[p].ok <=> cachedReport.status \in {StatusHealthy, StatusDegraded}
    /\ ret[p].op \in {"ReadyHandler", "FullHandler"}
       => /\ ret[p].report = cachedReport
          /\ ret[p].full
          /\ ret[p].status = cachedReport.status
          /\ ret[p].code = StatusServiceUnavailable
               <=> cachedReport.status = StatusUnhealthy
          /\ ret[p].code = StatusOK
               <=> cachedReport.status \in {StatusHealthy, StatusDegraded}

\* The readiness route answers 503 with body status unhealthy when the one
\* registered checker is required and failing.
C8_Witness ==
  /\ ret[Caller].op = "ReadyHandler"
  /\ ret[Caller].code = StatusServiceUnavailable
  /\ ret[Caller].status = StatusUnhealthy
  /\ Len(checkers) = 1
  /\ checkers[1].required
  /\ DOMAIN ret[Caller].report.checks = {checkers[1].name}
  /\ ret[Caller].report.checks[checkers[1].name].status = StatusUnhealthy

\* C9: the startup route answers 200 exactly when the evaluation it reports
\* is healthy: every 200 carries a healthy Report, every other evaluation
\* gives 503.
C9_StartupOKOnlyWhenHealthy ==
  \A p \in Procs :
    ret[p].op = "StartupHandler"
    => (ret[p].code = StatusOK <=> ret[p].report.status = StatusHealthy)

\* C10: IsLive is true and the liveness route answers 200 with status
\* healthy in every state of the manager, and neither invokes a checker.
C10_LivenessIgnoresHealth ==
  /\ [](\A p \in Procs :
          /\ ret[p].op = "IsLive" => ret[p].ok
          /\ ret[p].op = "LiveHandler"
             => (ret[p].code = StatusOK /\ ret[p].status = StatusHealthy))
  /\ [][\A p \in Procs :
          ret'[p].op \in {"IsLive", "LiveHandler"}
          => (calls' = calls /\ pc' = pc /\ cachedReport' = cachedReport)
       ]_vars

\* The liveness route answers 200 while the cached Report is unhealthy.
C10_Witness ==
  /\ ret[Caller].op = "LiveHandler"
  /\ ret[Caller].code = StatusOK
  /\ cachedReport.status = StatusUnhealthy

\* ------------------------------------------------- the scheduler's claims
\* The background goroutine l runs.
Alive(l) == bgpc[l] \in {"initial", "loop"}

\* The background goroutine l has returned.
Exited(l) == bgpc[l] \in {"stopped", "cancelled"}

\* The runChecks calls of goroutine l that have passed their snapshot.
Launched(l) == evals[l] - (IF pc[l] = "snapshot" THEN 1 ELSE 0)

\* C11: the background goroutine calls runChecks once at once, before it
\* receives any tick, and once more for each tick it receives: its calls are
\* one more than the ticks it has received, every registered checker is
\* invoked once in each call, the initial call does happen, and a tick held
\* by ticker.C is received unless a stop is requested or the context is
\* cancelled.
C11_ImmediateThenPerTick ==
  /\ [](\A l \in Loops :
          /\ bgpc[l] \in {"none", "initial"} => (evals[l] = 0 /\ ticksTaken[l] = 0)
          /\ (bgpc[l] = "loop" \/ Exited(l)) => evals[l] = 1 + ticksTaken[l])
  /\ [](\A i \in DOMAIN calls :
          calls[i] = Launched(Scheduler) + Launched(Scheduler2))
  /\ \A l \in Loops : (bgpc[l] = "initial") ~> (evals[l] >= 1 \/ panicked)
  /\ \A l \in Loops :
       (bgpc[l] = "loop" /\ tickerC[l])
         ~> (~tickerC[l] \/ stopCh = "closed" \/ ctxDone)
  /\ [][\A l \in Loops :
          (tickerC[l] /\ ~tickerC'[l] /\ bgpc'[l] = "loop")
          => (ticksTaken'[l] = ticksTaken[l] + 1 /\ pc'[l] = "snapshot")]_vars

\* Neither stopped nor cancelled, the first background goroutine has
\* finished the initial cycle and the cycles of two ticks: every checker has
\* been invoked three times.
C11_Witness ==
  /\ stopCh = "open"
  /\ ~ctxDone
  /\ bgpc[Scheduler] = "loop"
  /\ pc[Scheduler] = "idle"
  /\ ticksTaken[Scheduler] = 2
  /\ bgpc[Scheduler2] = "none"
  /\ Len(calls) >= 1
  /\ \A i \in DOMAIN calls : calls[i] = 3

\* C12: with one scheduler started, a StopBackground call that waits does
\* return; it has returned only when the background goroutine has exited,
\* with no cycle under way; and after it has returned no checker is invoked
\* and no cycle started.
C12_CleanStop ==
  /\ (stoppc = "wait" /\ bgpc[Scheduler] # "none" /\ bgpc[Scheduler2] = "none")
       ~> (stoppc = "idle" \/ bgpc[Scheduler2] # "none")
  /\ []((stopsReturned >= 1 /\ bgpc[Scheduler2] = "none")
         => (Exited(Scheduler) /\ pc[Scheduler] = "idle"))
  /\ [][(stopsReturned >= 1 /\ bgpc'[Scheduler2] = "none")
          => (calls' = calls /\ evals' = evals)]_vars

\* StopBackground has returned after a scheduler that was not cancelled ran
\* the initial cycle and the cycles of two ticks.
C12_Witness ==
  /\ stopsReturned = 1
  /\ ~ctxDone
  /\ bgpc[Scheduler] = "stopped"
  /\ bgpc[Scheduler2] = "none"
  /\ ticksTaken[Scheduler] = 2
  /\ Len(calls) >= 1
  /\ calls[1] = 3

\* C22: with one scheduler started, cancelling the context handed to
\* StartBackground makes the background goroutine return although no stop is
\* requested (its checkers return): with stopCh open it returns through the
\* case of ctx.Done() and without a fault; and a first StopBackground called
\* after it has returned closes stopCh without a fault, finds doneCh closed
\* and returns.
C22_CancelExitsThenStopReturns ==
  /\ (ctxDone /\ Alive(Scheduler) /\ bgpc[Scheduler2] = "none")
       ~> (Exited(Scheduler) \/ bgpc[Scheduler2] # "none")
  /\ [][(bgpc[Scheduler] = "loop" /\ bgpc'[Scheduler] # "loop" /\ stopCh = "open"
          /\ bgpc[Scheduler2] = "none")
          => (ctxDone /\ bgpc'[Scheduler] = "cancelled" /\ ~panicked'
              /\ doneCh' = "closed")]_vars
  /\ [][(Exited(Scheduler) /\ bgpc[Scheduler2] = "none" /\ stops = 0 /\ stops' = 1)
          => (~panicked' /\ stoppc' = "wait" /\ doneCh' = "closed")]_vars
  /\ (stoppc = "wait" /\ Exited(Scheduler) /\ bgpc[Scheduler2] = "none")
       ~> (stoppc = "idle" \/ bgpc[Scheduler2] # "none")

\* The one background goroutine, having run the cycle of a tick, has returned
\* through the case of ctx.Done(): no StopBackground was called.
C22_Witness ==
  /\ bgpc[Scheduler] = "cancelled"
  /\ bgpc[Scheduler2] = "none"
  /\ stops = 0
  /\ stopCh = "open"
  /\ doneCh = "closed"
  /\ ticksTaken[Scheduler] >= 1
  /\ ~panicked

\* C27: after a StartBackground and a StopBackground that has returned, a
\* further StartBackground (none of them overlapping, the context not
\* cancelled) launches a goroutine that, as long as no further stop is
\* requested, neither returns nor faults, and a further StopBackground closes
\* stopCh without a fault and waits for it.
C27_RestartWorks ==
  [][( /\ ~doubleStart /\ ~ctxDone
       /\ Exited(Scheduler) /\ Alive(Scheduler2)
       /\ stops = 1 /\ stopsReturned = 1 )
     => /\ ~panicked'
        /\ stops' = 1 => bgpc'[Scheduler2] \in {"initial", "loop"}
        /\ stops' = 2 => stoppc' = "wait"
    ]_vars

\* C13: a StopBackground call on a manager whose StartBackground was never
\* called does not stay blocked: it can return, or the call has failed.
C13_StopNeverStartedReturns ==
  (stoppc = "wait" /\ \A l \in Loops : bgpc[l] = "none")
    => (ENABLED StopReturn \/ panicked)

\* C14: at most one background goroutine runs at any time.
C14_AtMostOneLoop ==
  Cardinality({l \in Loops : Alive(l)}) <= 1

\* C15: a Report is unhealthy only when some required checker has failed
\* FailureThreshold times in a row: below the threshold a required checker's
\* failure does not make the Report, or readiness, unhealthy.
C15_ThresholdGatesUnhealthy ==
  \A p \in Procs :
    ( /\ ret[p].op \in {"Check", "IsReady", "ReadyHandler", "FullHandler"}
      /\ ret[p].report.status = StatusUnhealthy )
    => \E n \in DOMAIN ret[p].report.checks :
         /\ Lookup(requiredChecks, n)
         /\ failureCounts[n] >= config.FailureThreshold

\* C16: every 503 of the readiness and of the startup route has the Report
\* as its body, with an entry that is not healthy under the failing
\* checker's name.
C16_Every503HasBreakdown ==
  \A p \in Procs :
    ( /\ ret[p].op \in {"ReadyHandler", "StartupHandler"}
      /\ ret[p].code = StatusServiceUnavailable )
    => /\ ret[p].full
       /\ \E n \in DOMAIN ret[p].report.checks :
            ret[p].report.checks[n].status # StatusHealthy

C18_HealthCheckErrorIffUnhealthy ==
  \A p \in Procs :
    ret[p].op = "HealthCheck"
    => /\ HealthEnabled => ret[p].report = cachedReport
       /\ ret[p].err # "" <=> (HealthEnabled /\ ret[p].report.status = StatusUnhealthy)

\* HealthCheck returns an error on an unhealthy Report taken from the cache.
C18_Witness ==
  /\ HealthEnabled
  /\ ret[Caller].op = "HealthCheck"
  /\ ret[Caller].err # ""
  /\ ret[Caller].cached
  /\ ret[Caller].report.status = StatusUnhealthy

\* ------------------------------------------- the concurrent callers' claims
\* C19: the failure counters are replaced together with the cached Report,
\* so what GetFailureCount answers for a uniquely named checker always agrees
\* with the cached Report: it is 0 exactly when the cached entry of that name
\* is healthy, also while a cycle is under way.
C19_CountersCommitWithReport ==
  \A p \in Procs :
    ( /\ ret[p].op = "GetFailureCount"
      /\ UniqueNames(checkers)
      /\ ret[p].name \in DOMAIN cachedReport.checks )
    => (ret[p].count = 0
          <=> cachedReport.checks[ret[p].name].status = StatusHealthy)

\* The names of the checkers in the snapshot of p's cycle.
SnapNames(p) == { snap[p].checkers[i].name : i \in DOMAIN snap[p].checkers }

\* C20: a cycle copies the checkers registered at its snapshot and invokes
\* exactly those; its Report is computed once every one of them has
\* delivered and has an entry for exactly their names; a Register while the
\* cycle is under way leaves the cycle's copies and results alone, and the
\* new checker is invoked by no step of that cycle.
C20_SnapshotCompleteIsolated ==
  /\ [](\A p \in Procs :
          /\ pc[p] \in {"collect", "commit"}
             => /\ Len(gor[p]) = Len(snap[p].checkers)
                /\ DOMAIN results[p] \subseteq SnapNames(p)
          /\ pc[p] = "commit"
             => /\ \A i \in DOMAIN gor[p] : gor[p][i] = "done"
                /\ DOMAIN report[p].checks = SnapNames(p))
  /\ [][\A p \in Procs :
          /\ (pc[p] = "snapshot" /\ pc'[p] = "collect")
             => /\ snap'[p].checkers = checkers
                /\ calls' = [i \in DOMAIN checkers |-> calls[i] + 1]
          /\ (pc[p] \in {"collect", "commit"} /\ Len(checkers') > Len(checkers))
             => /\ snap'[p] = snap[p] /\ gor'[p] = gor[p]
                /\ results'[p] = results[p] /\ report'[p] = report[p]
                /\ calls' = Append(calls, 0)
          /\ (pc[p] \in {"collect", "commit"} /\ Stepped(p))
             => calls' = calls
          /\ (pc[p] = "commit" /\ pc'[p] = "idle")
             => /\ cachedReport' = report[p]
                /\ op[p] # "Background" => ret'[p].report = report[p]
       ]_vars

\* A cycle over the one checker registered at its snapshot is about to
\* commit a Report with that checker's entry alone, while a second checker
\* of another name, registered during the cycle, has not been invoked.
C20_Witness ==
  \E p \in Procs :
    /\ pc[p] = "commit"
    /\ Len(snap[p].checkers) = 1
    /\ Len(checkers) = 2
    /\ checkers[2].name # checkers[1].name
    /\ DOMAIN report[p].checks = {checkers[1].name}
    /\ calls = <<1, 0>>

\* C23: Register takes a name that is registered already; a cycle over
\* checkers that share a name has one entry per name in its results and in
\* its Report, and each result collected replaces the entry of its name:
\* the entry is healthy exactly when the result just counted was (the
\* failure counter of the name is back at 0).
C23_DuplicateNamesOverwrite ==
  /\ [](\A p \in Procs :
          pc[p] = "commit"
          => /\ DOMAIN report[p].checks = SnapNames(p)
             /\ report[p].checks = results[p])
  /\ [][\A p \in Procs, i \in 1..MaxConcCheckers :
          Delivered(p, i)
          => LET n == snap[p].checkers[i].name
             IN  /\ DOMAIN results'[p] = DOMAIN results[p] \cup {n}
                 /\ \A m \in DOMAIN results[p] \ {n} : results'[p][m] = results[p][m]
                 /\ results'[p][n].status = StatusHealthy <=> failureCounts'[n] = 0
       ]_vars

\* Two checkers of one name were invoked once each in a cycle that is about
\* to commit; the one collected first passed, the one collected later failed
\* (the counter went from 0 to 1), and the one entry of the Report is the
\* failure.
C23_Witness ==
  \E p \in Procs :
    /\ pc[p] = "commit"
    /\ Len(snap[p].checkers) = 2
    /\ snap[p].checkers[1].name = snap[p].checkers[2].name
    /\ calls = <<1, 1>>
    /\ DOMAIN report[p].checks = {FirstName}
    /\ report[p].checks[FirstName].status = StatusUnhealthy
    /\ failureCounts[FirstName] = 1

\* C28: the requiredness NewReport applies to an entry is the Required()
\* of the checker whose result the entry holds: when a result is collected
\* after which no checker of the same name is still to deliver, the snapshot
\* of requiredChecks maps the name to that checker's Required().
C28_ClassificationOfStoredResult ==
  [][\A p \in Procs, i \in 1..MaxConcCheckers :
       ( /\ Delivered(p, i)
         /\ \A j \in DOMAIN gor[p] \ {i} :
              snap[p].checkers[j].name = snap[p].checkers[i].name
              => gor[p][j] = "done" )
       => Lookup(snap[p].requiredChecks, snap[p].checkers[i].name)
            = snap[p].checkers[i].required
    ]_vars

\* C30: a Register appends to the checker list and sets the name's entry of
\* requiredChecks, and leaves the cached Report, the cache time, the failure
\* counters and the configuration as they are; a Check that finds the cached
\* Report fresh returns it, also after a Register.
C30_RegisterFrame ==
  [][ /\ Len(checkers') > Len(checkers)
         => /\ \E n \in Names, b \in BOOLEAN :
                 /\ checkers' = Append(checkers, [name |-> n, required |-> b])
                 /\ requiredChecks' = MapSet(requiredChecks, n, b)
            /\ cachedReport' = cachedReport
            /\ cacheTime' = cacheTime
            /\ failureCounts' = failureCounts
            /\ config' = config
      /\ \A p \in Procs :
           (pc[p] = "check" /\ Fresh /\ Stepped(p) /\ pc'[p] = "idle")
           => (ret'[p].cached /\ ret'[p].report = cachedReport)
    ]_vars

\* A Check made after a second checker of another name was registered has
\* returned the Report cached before: it has the first checker's entry and
\* none for the new checker, which was never invoked.
C30_Witness ==
  /\ ret[Caller].op = "Check"
  /\ ret[Caller].cached
  /\ Len(checkers) = 2
  /\ checkers[2].name # checkers[1].name
  /\ DOMAIN ret[Caller].report.checks = {checkers[1].name}
  /\ calls = <<1, 0>>

\* ------------------------------------------- the overlapping cycles' claims
\* C21: while a checker of a cycle is executing, nobody holds the manager
\* lock: a Register goes through, and so do a GetFailureCount of the idle
\* caller and the cache test of a Check call that finds the cache fresh.
C21_LockFreeWhileChecking ==
  \A p \in Procs :
    (pc[p] = "collect" /\ \E i \in DOMAIN gor[p] : gor[p][i] = "running")
    => /\ mu = "free"
       /\ \A n \in Names, b \in BOOLEAN : ENABLED Register(n, b)
       /\ \A q \in Procs \ {p} :
            /\ (q = Caller /\ pc[q] = "idle")
               => \A n \in Names : ENABLED GetFailureCount(q, n)
            /\ (pc[q] = "check" /\ Fresh) => ENABLED CacheTest(q)

\* While the checker of a background cycle is executing, a Check call of the
\* caller has returned the cached Report.
C21_Witness ==
  /\ pc[Scheduler] = "collect"
  /\ Len(gor[Scheduler]) >= 1
  /\ gor[Scheduler][1] = "running"
  /\ ret[Caller].op = "Check"
  /\ ret[Caller].cached
  /\ ret[Caller].report = cachedReport

\* C25: a call that finds the cache empty or stale goes on to a cycle of its
\* own whatever the other caller is doing; the snapshot of each cycle invokes
\* every registered checker once more, also while another cycle's invocation
\* of it has not returned; and each cycle commits and returns the Report
\* built from its own results.
C25_MissesNotCoalesced ==
  [][\A p \in Procs :
       /\ (pc[p] = "check" /\ ~Fresh /\ Stepped(p)) => pc'[p] = "snapshot"
       /\ (pc[p] = "snapshot" /\ Stepped(p))
          => /\ pc'[p] = "collect"
             /\ calls' = [i \in DOMAIN checkers |-> calls[i] + 1]
             /\ gor'[p] = [i \in DOMAIN checkers |-> "running"]
             /\ results'[p] = EmptyMap
       /\ (pc[p] = "collect" /\ pc'[p] = "commit")
          => report'[p].checks = results[p]
       /\ (pc[p] = "commit" /\ Stepped(p))
          => /\ cachedReport' = report[p]
             /\ op[p] # "Background"
                  => (ret'[p].report = report[p] /\ ~ret'[p].cached)
       /\ \A q \in Procs \ {p} :
            Stepped(p) => (results'[q] = results[q] /\ report'[q] = report[q]
                           /\ gor'[q] = gor[q])
    ]_vars

\* A Check call and a background cycle both found the cache empty: nothing
\* is committed yet, the one checker has been invoked twice, and neither
\* invocation has returned.
C25_Witness ==
  /\ cachedReport = NilReport
  /\ pc[Caller] = "collect"
  /\ pc[Scheduler] = "collect"
  /\ Len(checkers) >= 1
  /\ calls[1] = 2
  /\ gor[Caller][1] = "running"
  /\ gor[Scheduler][1] = "running"

\* C26: a commit never replaces the cached Report by a Report with an
\* earlier Timestamp.
C26_CacheNeverGoesBack ==
  [][\A p \in Procs :
       (pc[p] = "commit" /\ Stepped(p) /\ cachedReport # NilReport)
       => cachedReport'.timestamp >= cachedReport.timestamp
    ]_vars

\* ------------------------------------------------- the history's claims
\* The aggregate of a checks map under a requiredness map, by cases.
ExpectedStatus(checks, required) ==
  IF \E n \in DOMAIN checks :
       checks[n].status = StatusUnhealthy /\ Lookup(required, n)
  THEN StatusUnhealthy
  ELSE IF \E n \in DOMAIN checks : checks[n].status # StatusHealthy
       THEN StatusDegraded
       ELSE StatusHealthy

C29_CancellationCountsAsFailure ==
  [][\A p \in Procs :
       /\ \A i \in 1..MaxCheckers :
            (Delivered(p, i) /\ callerCtx[p])
            => LET n == snap[p].checkers[i].name
               IN  /\ results'[p][n].status = StatusUnhealthy
                   /\ failureCounts'[n] = failureCounts[n] + 1
       /\ (pc[p] = "commit" /\ callerCtx[p] /\ Stepped(p))
          => /\ cachedReport' = report[p]
             /\ cacheTime' = now
             /\ \A n \in SnapNames(p) :
                  /\ n \in DOMAIN report[p].checks
                  /\ report[p].checks[n].status = StatusUnhealthy
       /\ (pc[p] = "check" /\ Fresh /\ Stepped(p) /\ pc'[p] = "idle")
          => (ret'[p].cached /\ ret'[p].report = cachedReport)
    ]_vars

\* A Check call whose context is not cancelled is about to test the cache,
\* which holds, fresh, the Report of a cycle run under a cancelled context:
\* the entry of the one checker carries the context's error and its failure
\* counter is 1.
C29_Witness ==
  /\ pc[Caller] = "check"
  /\ ~callerCtx[Caller]
  /\ Fresh
  /\ Len(checkers) = 1
  /\ calls = <<1>>
  /\ DOMAIN cachedReport.checks = {FirstName}
  /\ cachedReport.checks[FirstName].error = Canceled
  /\ failureCounts[FirstName] = 1

\* ------------------------------------------------- NewReport on its own
\* All maps from a subset of keys to values.
PartialMaps(keys, values) == UNION { [d -> values] : d \in SUBSET keys }

\* Any checks map and any requiredness map.
InitAgg ==
  /\ now = 0
  /\ config = [CacheTTL |-> 0, Timeout |-> TimeoutTicks,
               FailureThreshold |-> DefaultFailureThreshold]
  /\ checkers = <<>>
  /\ requiredChecks = EmptyMap
  /\ cachedReport = NilReport
  /\ cacheTime = 0
  /\ failureCounts = [n \in Names |-> 0]
  /\ mu = "free"
  /\ op = [p \in Goroutines |-> "none"]
  /\ pc = [p \in Goroutines |-> "idle"]
  /\ phase = [p \in Goroutines |-> 0]
  /\ snap = [p \in Goroutines |-> NoSnap]
  /\ gor = [p \in Goroutines |-> <<>>]
  /\ deadline = [p \in Goroutines |-> 0]
  /\ callerCtx = [p \in Goroutines |-> FALSE]
  /\ results = [p \in Goroutines |-> EmptyMap]
  /\ report = [p \in Goroutines |-> NilReport]
  /\ ret = NoRets
  /\ calls = <<>>
  /\ ncalls = 0
  /\ everStarted = FALSE
  /\ doubleStart = FALSE
  /\ BgInit
  /\ aggIn \in [checks : PartialMaps(AggNames, CheckerResults),
                requiredChecks : PartialMaps(AggNames, BOOLEAN)]
  /\ aggOut = NilReport
  /\ HealthEnabled = TRUE

\* NewReport(checks, requiredChecks), `range` visiting the keys in any order.
CallNewReport ==
  /\ aggOut = NilReport
  /\ \E order \in Orders(DOMAIN aggIn.checks) :
       aggOut' = NewReport(order, aggIn.checks, aggIn.requiredChecks, now)
  /\ UNCHANGED <<now, mgrVars, procVars, ret, ghostVars, aggIn, bgVars, obsVars>>

NextAgg == CallNewReport

SpecAgg == InitAgg /\ [][NextAgg]_vars

\* The entries of the map handed to NewReport.
RequiredUnhealthy(n) ==
  /\ aggIn.checks[n].status = StatusUnhealthy
  /\ Lookup(aggIn.requiredChecks, n)
OptionalUnhealthy(n) ==
  /\ aggIn.checks[n].status = StatusUnhealthy
  /\ ~Lookup(aggIn.requiredChecks, n)
Degraded(n) == aggIn.checks[n].status = StatusDegraded

\* C1: whenever the checks map has an unhealthy entry whose name is marked
\* required, the Report NewReport returns is unhealthy, whatever the other
\* entries are and in whatever order the entries are visited.
C1_RequiredUnhealthyDominates ==
  (aggOut # NilReport /\ \E n \in DOMAIN aggIn.checks : RequiredUnhealthy(n))
    => aggOut.status = StatusUnhealthy

\* A Report over a required-unhealthy entry next to a degraded and an
\* optional-unhealthy one.
C1_Witness ==
  /\ aggOut # NilReport
  /\ \E n, m, k \in DOMAIN aggIn.checks :
       RequiredUnhealthy(n) /\ OptionalUnhealthy(m) /\ Degraded(k)

\* C2: whenever the checks map has no required-unhealthy entry but has an
\* unhealthy entry of a non-required checker or a degraded entry, the Report
\* is degraded, in whatever order the entries are visited.
C2_DegradedWithoutRequiredUnhealthy ==
  ( /\ aggOut # NilReport
    /\ \A n \in DOMAIN aggIn.checks : ~RequiredUnhealthy(n)
    /\ \E n \in DOMAIN aggIn.checks : OptionalUnhealthy(n) \/ Degraded(n) )
    => aggOut.status = StatusDegraded

\* A Report over an optional-unhealthy entry, a degraded required entry and a
\* healthy one.
C2_Witness ==
  /\ aggOut # NilReport
  /\ \A n \in DOMAIN aggIn.checks : ~RequiredUnhealthy(n)
  /\ \E n, m, k \in DOMAIN aggIn.checks :
       /\ OptionalUnhealthy(n)
       /\ Degraded(m) /\ Lookup(aggIn.requiredChecks, m)
       /\ aggIn.checks[k].status = StatusHealthy

\* C3: the Report is healthy exactly when every entry of the checks map is
\* healthy; in particular the Report over the empty map is healthy.
C3_HealthyIffAllHealthy ==
  aggOut # NilReport =>
    /\ (aggOut.status = StatusHealthy) <=>
         (\A n \in DOMAIN aggIn.checks : aggIn.checks[n].status = StatusHealthy)
    /\ (DOMAIN aggIn.checks = {} => aggOut.status = StatusHealthy)

\* The Report over the empty map has been built, and it is healthy.
C3_Witness ==
  /\ aggOut # NilReport
  /\ DOMAIN aggIn.checks = {}
  /\ aggOut.status = StatusHealthy

====
